---- MODULE Spec2Model ----
(***************************************************************************)
(* UART console of step_5_uart_console: a DMA-filled circular receive      *)
(* buffer, the idle-line interrupt that raises rx_pending, the polled      *)
(* task_console that drains the buffer, the line editor                    *)
(* console_process_bytes and the command dispatcher.                       *)
(*                                                                         *)
(* The repository holds three stages of the console, selected by `build`:  *)
(*   "part_000" : src/unnamed/part_000 (line echo on Enter, no prompt)     *)
(*   "console"  : src/Core/Src/console.c lines 1-163 (echo, backspace,     *)
(*                prompt, console_handle_command)                          *)
(*   "readme"   : console.c with the step 6.3 dispatcher console_execute,  *)
(*                cmd_led, cmd_help and cmd_table of src/README.md         *)
(*                (the same text is carried in console.c lines 576-725)    *)
(* task_console and the interrupt handler are the same in all three.       *)
(***************************************************************************)
EXTENDS Integers, Sequences, FiniteSets, TLC

UART_RX_DMA_BUF_SIZE == 128
LINE_BUF_SIZE == 64
MAX_ARGS == 8

\* Bound on the number of idle interrupts counted between two flag clears.
MaxIrq == 2

Builds == {"part_000", "console", "readme"}

(***************************************************************************)
(* String literals of the source, as byte sequences.                       *)
(***************************************************************************)
S_prompt == <<62, 32>>
S_crlf == <<13, 10>>
S_erase == <<8, 32, 8>>
S_help == <<104, 101, 108, 112>>
S_led == <<108, 101, 100>>
S_off == <<111, 102, 102>>
S_slow == <<115, 108, 111, 119>>
S_fast == <<102, 97, 115, 116>>
S_help_msg == <<104, 101, 108, 112, 44, 32, 108, 101, 100, 32, 111, 102, 102, 44, 32, 108, 101, 100, 32, 115, 108, 111, 119, 44, 32, 108, 101, 100, 32, 102, 97, 115, 116, 13, 10>>
S_unknown == <<117, 110, 107, 110, 111, 119, 110, 32, 99, 111, 109, 109, 97, 110, 100, 13, 10>>
S_usage == <<117, 115, 97, 103, 101, 58, 32, 108, 101, 100, 32, 111, 102, 102, 124, 115, 108, 111, 119, 124, 102, 97, 115, 116, 13, 10>>
S_invalid == <<105, 110, 118, 97, 108, 105, 100, 32, 109, 111, 100, 101, 13, 10>>
S_ok == <<111, 107, 13, 10>>
S_sep == <<32, 45, 32>>
S_help_help == <<115, 104, 111, 119, 32, 116, 104, 105, 115, 32, 104, 101, 108, 112>>
S_led_help == <<108, 101, 100, 32, 111, 102, 102, 124, 115, 108, 111, 119, 124, 102, 97, 115, 116>>

(***************************************************************************)
(* Received byte streams.  A stream is a sequence of bursts; the DMA       *)
(* stores one burst per step, so a burst of one byte gives byte-level      *)
(* interleaving with the task and a long burst lets the write position     *)
(* run far ahead of the reader between two task steps.                     *)
(***************************************************************************)
Fill(b, n) == [i \in 1..n |-> b]
Singles(s) == [i \in 1..Len(s) |-> <<s[i]>>]

In_help == <<104, 101, 108, 112, 13, 10>>
In_led_off == <<108, 101, 100, 32, 111, 102, 102, 13, 10>>
In_led_slow == <<108, 101, 100, 32, 115, 108, 111, 119, 13>>
In_led_fast == <<108, 101, 100, 32, 102, 97, 115, 116, 10>>
In_led == <<108, 101, 100, 13>>
In_bogus == <<108, 101, 100, 32, 98, 111, 103, 117, 115, 13>>
In_xyz == <<120, 121, 122, 13>>
In_blank == <<32, 32, 13>>
In_ab == <<97, 98, 8, 13, 10>>
In_led_extra == <<108, 101, 100, 32, 111, 102, 102, 32, 120, 13>>
In_led_OFF == <<108, 101, 100, 32, 79, 70, 70, 13>>
In_erase == <<8, 127, 97, 127, 127, 13>>
In_ctrl == <<97, 27, 9, 200, 0, 98, 13>>

Streams ==
  << Singles(In_help),
     Singles(In_led_off),
     <<In_led_slow>>,
     <<In_led_fast>>,
     <<In_led, In_bogus>>,
     Singles(In_xyz),
     Singles(In_blank),
     Singles(In_ab),
     <<In_xyz, In_help, In_led_off>>,
     \* line-buffer overflow: LINE_BUF_SIZE - 1 accepted bytes, two more, Enter
     <<Fill(97, LINE_BUF_SIZE - 2), <<98>>, <<99>>, <<100>>, <<13>>>>,
     \* wrap inside a command line
     <<Fill(0, UART_RX_DMA_BUF_SIZE - 2)>> \o Singles(In_help),
     <<Fill(0, UART_RX_DMA_BUF_SIZE - 3)>> \o Singles(In_xyz),
     \* write position reaches the end of the buffer exactly
     <<Fill(0, UART_RX_DMA_BUF_SIZE - 4), In_xyz, In_xyz>>,
     \* reader starved: a whole buffer and more between polls
     <<Fill(0, UART_RX_DMA_BUF_SIZE - 1), <<0>>, In_xyz>>,
     <<In_xyz, Fill(0, UART_RX_DMA_BUF_SIZE), In_help>>,
     <<Fill(0, UART_RX_DMA_BUF_SIZE - 4), <<120>>, <<121>>, <<122>>, <<13>>, <<0>>, <<0>>>>,
     \* led with a surplus argument, with a mode in the wrong case
     <<In_led_extra, In_led_OFF>>,
     \* erase bytes on an empty and on a non-empty line
     Singles(In_erase),
     \* bytes that are neither terminator, erase nor printable
     Singles(In_ctrl) >>

RECURSIVE Flatten(_)
Flatten(bursts) ==
  IF bursts = <<>> THEN <<>> ELSE Head(bursts) \o Flatten(Tail(bursts))

\* All bytes of each stream, in arrival order.
Flat == [s \in 1..Len(Streams) |-> Flatten(Streams[s])]

VARIABLES
  build,          \* which stage of the console is compiled
  sid,            \* the stream the serial line delivers
  nburst,         \* bursts the DMA has stored so far
  written,        \* bytes the DMA has stored so far
  inited,         \* console_init has run
  rx_pending,     \* console.c:11
  dma_last_pos,   \* console.c:10
  line_buf,       \* console.c:13
  line_len,       \* console.c:14
  led_mode,       \* led.mode behind led_set_mode (README step 6.3)
  out,            \* every byte handed to HAL_UART_Transmit, in order
  pc,             \* position of task_console
  dma_pos,        \* local of task_console
  \* history variables
  delivered,      \* stream index of every byte passed to console_process_bytes
  spans,          \* <<start, len>> of each console_process_bytes call of this invocation
  entry_pos,      \* dma_last_pos when the invocation started
  early,          \* the invocation returned at the rx_pending test
  read_w,         \* `written` when the DMA counter was last read
  win_gt,         \* the write position ran more than the capacity ahead of its last read
  overrun,        \* the unread backlog reached the capacity
  irq_count,      \* idle interrupts since the flag was last cleared
  idle_due,       \* bytes were stored since the last idle interrupt
  prompts,        \* calls of console_prompt
  completed,      \* lines completed by a terminator, in order
  handled,        \* per completed line: what its dispatch transmitted and invoked
  coalesced,      \* idle interrupts that preceded the last flag clear
  set_mode_calls  \* arguments of led_set_mode, in order

hwvars == <<build, sid, nburst, written>>
progvars == <<inited, rx_pending, dma_last_pos>>
taskvars == <<pc, dma_pos>>
\* the console state a console_process_bytes call may change, with its history
convars == <<line_buf, line_len, led_mode, out, delivered, prompts, completed,
             handled, set_mode_calls>>
taskhist == <<spans, entry_pos, early, read_w, coalesced>>
hwhist == <<win_gt, overrun, irq_count, idle_due>>
vars == <<hwvars, progvars, taskvars, convars, taskhist, hwhist>>

(***************************************************************************)
(* Hardware view of the receive buffer.                                    *)
(***************************************************************************)
\* __HAL_DMA_GET_COUNTER(huart2.hdmarx): transfers left before the circular
\* DMA reloads; it counts down from the buffer size and never reads 0.
NDTR(w) == UART_RX_DMA_BUF_SIZE - (w % UART_RX_DMA_BUF_SIZE)

\* Stream index (from 0) of the byte held at uart_rx_dma_buf[p] after w
\* bytes were stored, -1 while the slot still holds its initial zero.
BufIdx(w, p) ==
  IF p >= w THEN -1
  ELSE p + UART_RX_DMA_BUF_SIZE * ((w - 1 - p) \div UART_RX_DMA_BUF_SIZE)

\* uart_rx_dma_buf[p]
uart_rx_dma_buf(p) ==
  IF BufIdx(written, p) < 0 THEN 0 ELSE Flat[sid][BufIdx(written, p) + 1]

(***************************************************************************)
(* Console state threaded through the line editor and the dispatcher.      *)
(***************************************************************************)
St ==
  [line_buf |-> line_buf, line_len |-> line_len, led_mode |-> led_mode,
   out |-> out, delivered |-> delivered, prompts |-> prompts,
   completed |-> completed, handled |-> handled,
   set_mode_calls |-> set_mode_calls]

HAL_UART_Transmit(st, bytes) == [st EXCEPT !.out = @ \o bytes]

console_prompt(st) ==
  [HAL_UART_Transmit(st, S_prompt) EXCEPT !.prompts = @ + 1]

console_write(st, s) == HAL_UART_Transmit(st, s)

\* strlen of the C string held in a char array: index of the first NUL.
StrLen(buf) ==
  CHOOSE n \in DOMAIN buf :
    /\ buf[n] = 0
    /\ \A m \in DOMAIN buf : m < n => buf[m] # 0

\* The C string held in a char array, as a sequence.
CString(buf) == [i \in 1..StrLen(buf) |-> buf[i - 1]]

console_handle_command(st) ==
  LET cmd == CString(st.line_buf)
      st1 == IF cmd = S_help THEN console_write(st, S_help_msg) ELSE st
  IN  console_prompt(st1)

(***************************************************************************)
(* README step 6.3: command table, handlers and console_execute.           *)
(***************************************************************************)
led_set_mode(st, mode) ==
  [st EXCEPT !.led_mode = mode, !.set_mode_calls = Append(@, mode)]

cmd_led(st, argv) ==
  IF Len(argv) < 2 THEN console_write(st, S_usage)
  ELSE IF argv[2] = S_off THEN console_write(led_set_mode(st, "LED_MODE_OFF"), S_ok)
  ELSE IF argv[2] = S_slow THEN console_write(led_set_mode(st, "LED_MODE_SLOW"), S_ok)
  ELSE IF argv[2] = S_fast THEN console_write(led_set_mode(st, "LED_MODE_FAST"), S_ok)
  ELSE console_write(st, S_invalid)

cmd_table ==
  << [name |-> S_help, fn |-> "cmd_help", help |-> S_help_help],
     [name |-> S_led,  fn |-> "cmd_led",  help |-> S_led_help] >>

CMD_COUNT == Len(cmd_table)

RECURSIVE cmd_help_from(_, _)
cmd_help_from(st, i) ==
  IF i > CMD_COUNT THEN st
  ELSE cmd_help_from(
         console_write(console_write(console_write(console_write(st,
           cmd_table[i].name), S_sep), cmd_table[i].help), S_crlf),
         i + 1)

cmd_help(st, argv) == cmd_help_from(st, 1)

\* One strtok(.., " ") call on the string s, resuming at index save
\* (1-based): skip delimiters, cut the token at the next delimiter and
\* overwrite that delimiter with NUL.
strtok(s, save) ==
  LET b == CHOOSE j \in save..(Len(s) + 1) :
             /\ (j > Len(s) \/ s[j] # 32)
             /\ \A k \in save..(j - 1) : s[k] = 32
      e == CHOOSE j \in b..(Len(s) + 1) :
             /\ (j > Len(s) \/ s[j] = 32)
             /\ \A k \in b..(j - 1) : s[k] # 32
  IN  IF b > Len(s)
      THEN [found |-> FALSE, tok |-> <<>>, nul |-> {}, save |-> b]
      ELSE [found |-> TRUE, tok |-> SubSeq(s, b, e - 1),
            nul |-> IF e <= Len(s) THEN {e} ELSE {},
            save |-> IF e <= Len(s) THEN e + 1 ELSE e]

\* The tokenizing loop of console_execute; t is the pending strtok result.
RECURSIVE ArgLoop(_, _, _, _)
ArgLoop(s, t, argv, nuls) ==
  IF t.found /\ Len(argv) < MAX_ARGS
  THEN ArgLoop(s, strtok(s, t.save), Append(argv, t.tok), nuls \cup t.nul)
  ELSE [argv |-> argv, nuls |-> nuls \cup t.nul]

CallHandler(st, fn, argv) ==
  IF fn = "cmd_help" THEN cmd_help(st, argv) ELSE cmd_led(st, argv)

console_execute(st) ==
  LET s   == CString(st.line_buf)
      a   == ArgLoop(s, strtok(s, 1), <<>>, {})
      st1 == [st EXCEPT !.line_buf =
                [i \in DOMAIN @ |-> IF (i + 1) \in a.nuls THEN 0 ELSE @[i]]]
      hit == {i \in 1..CMD_COUNT : a.argv[1] = cmd_table[i].name}
  IN  IF Len(a.argv) = 0 THEN st1
      ELSE IF hit # {}
      THEN LET i == CHOOSE j \in hit : \A k \in hit : j <= k
           IN  CallHandler(st1, cmd_table[i].fn, a.argv)
      ELSE console_prompt(console_write(st1, S_unknown))

\* The call made at console.c:120 for a completed line.
Dispatch(st, b) ==
  IF b = "readme" THEN console_execute(st) ELSE console_handle_command(st)

(***************************************************************************)
(* Line editor.                                                            *)
(***************************************************************************)
\* History: what the handling of a completed line added between before and after.
Handled(before, after) ==
  [after EXCEPT !.handled = Append(@,
     [out |-> SubSeq(after.out, Len(before.out) + 1, Len(after.out)),
      modes |-> SubSeq(after.set_mode_calls, Len(before.set_mode_calls) + 1,
                       Len(after.set_mode_calls)),
      prompts |-> after.prompts - before.prompts])]

LineHasRoom_inclusive(len) == len <= LINE_BUF_SIZE - 1

\* console.c:145
LineHasRoom(len) == len < LINE_BUF_SIZE - 1

LineNonEmpty_always(len) == TRUE

\* console.c:117  if (line_len > 0)
LineNonEmpty(len) == len > 0

CanErase_always(len) == TRUE

\* console.c:128  if (line_len > 0)
CanErase(len) == len > 0

AfterErase_clear(len) == 0

\* console.c:130  line_len--;  (uint8_t)
AfterErase(len) == (len - 1) % 256

AfterEnter_keep(len) == len

\* console.c:121  line_len = 0;
AfterEnter(len) == 0

IsPrintable_wide(c) == c >= 32

\* console.c:143  else if (c >= 0x20 && c <= 0x7E)
IsPrintable(c) == c >= 32 /\ c <= 126

\* console.c:105-161, one iteration of the loop for the byte c.
EditByte(st, c, b) ==
  IF c = 13 \/ c = 10
  THEN LET st1 == HAL_UART_Transmit(st, S_crlf)
       IN  IF LineNonEmpty(st1.line_len)
           THEN LET st2 == [st1 EXCEPT !.line_buf[st1.line_len] = 0]
                    st3 == [st2 EXCEPT !.completed = Append(@, CString(st2.line_buf))]
                    st4 == Dispatch(st3, b)
                IN  [Handled(st3, st4) EXCEPT !.line_len = AfterEnter(@)]
           ELSE st1
  ELSE IF c = 8 \/ c = 127
  THEN IF CanErase(st.line_len)
       THEN HAL_UART_Transmit([st EXCEPT !.line_len = AfterErase(@)], S_erase)
       ELSE st
  ELSE IF IsPrintable(c)
  THEN IF LineHasRoom(st.line_len)
       THEN HAL_UART_Transmit(
              [st EXCEPT !.line_buf[st.line_len] = c, !.line_len = (@ + 1) % 256], <<c>>)
       ELSE st
  ELSE st

\* part_000:70-99, one iteration of the loop for the byte c.
EditByteOld(st, c) ==
  IF c = 13 \/ c = 10
  THEN IF st.line_len > 0
       THEN LET st1 == [st EXCEPT !.line_buf[st.line_len] = 0]
                ln  == [i \in 1..st1.line_len |-> st1.line_buf[i - 1]]
                st2 == [st1 EXCEPT !.completed = Append(@, ln)]
                st3 == HAL_UART_Transmit(HAL_UART_Transmit(st2, ln), S_crlf)
            IN  [Handled(st2, st3) EXCEPT !.line_len = 0]
       ELSE st
  ELSE IF st.line_len < LINE_BUF_SIZE - 1
  THEN [st EXCEPT !.line_buf[st.line_len] = c, !.line_len = @ + 1]
  ELSE [st EXCEPT !.line_len = 0]

ProcessByte(st, c, b) ==
  IF b = "part_000" THEN EditByteOld(st, c) ELSE EditByte(st, c, b)

\* console_process_bytes(&uart_rx_dma_buf[start], len): the iterations
\* lo <= i < hi of the loop, in order (the range is halved to keep the
\* evaluation shallow).
RECURSIVE ProcessRange(_, _, _, _, _)
ProcessRange(st, start, lo, hi, b) ==
  IF lo >= hi THEN st
  ELSE IF hi = lo + 1
  THEN ProcessByte([st EXCEPT !.delivered = Append(@, BufIdx(written, start + lo))],
                   uart_rx_dma_buf(start + lo), b)
  ELSE LET mid == (lo + hi) \div 2
           st1 == ProcessRange(st, start, lo, mid, b)
       IN  IF st1.line_len >= 0 THEN ProcessRange(st1, start, mid, hi, b) ELSE st1

console_process_bytes(st, start, len, b) == ProcessRange(st, start, 0, len, b)

\* Store the console state computed by a task step.
Commit(st) ==
  /\ line_buf' = st.line_buf
  /\ line_len' = st.line_len
  /\ led_mode' = st.led_mode
  /\ out' = st.out
  /\ delivered' = st.delivered
  /\ prompts' = st.prompts
  /\ completed' = st.completed
  /\ handled' = st.handled
  /\ set_mode_calls' = st.set_mode_calls

(***************************************************************************)
(* Initial state: the statics of console.c:9-14 before main runs.          *)
(***************************************************************************)
InitCommon ==
  /\ sid \in 1..Len(Streams)
  /\ nburst = 0
  /\ written = 0
  /\ inited = FALSE
  /\ rx_pending = 0
  /\ dma_last_pos = 0
  /\ line_buf = [i \in 0..(LINE_BUF_SIZE - 1) |-> 0]
  /\ line_len = 0
  /\ led_mode = "LED_MODE_OFF"
  /\ out = <<>>
  /\ pc = "idle"
  /\ dma_pos = 0
  /\ delivered = <<>>
  /\ spans = <<>>
  /\ entry_pos = 0
  /\ early = FALSE
  /\ read_w = 0
  /\ win_gt = FALSE
  /\ overrun = FALSE
  /\ irq_count = 0
  /\ idle_due = FALSE
  /\ prompts = 0
  /\ completed = <<>>
  /\ handled = <<>>
  /\ coalesced = 0
  /\ set_mode_calls = <<>>

Init == build \in Builds /\ InitCommon

\* The stages that hold the line editor of console.c.
InitConsole == build \in {"console", "readme"} /\ InitCommon

(***************************************************************************)
(* console_init (console.c:51-62, part_000:18-27)                          *)
(***************************************************************************)
ConsoleInit ==
  /\ ~inited
  /\ inited' = TRUE
  /\ Commit(IF build = "part_000" THEN St ELSE console_prompt(St))
  /\ UNCHANGED <<hwvars, rx_pending, dma_last_pos, taskvars, taskhist, hwhist>>

(***************************************************************************)
(* Hardware: the circular DMA stores the next burst of the stream.         *)
(***************************************************************************)
DmaWrite ==
  /\ inited
  /\ nburst < Len(Streams[sid])
  /\ nburst' = nburst + 1
  /\ written' = written + Len(Streams[sid][nburst + 1])
  /\ overrun' = (overrun \/ written' - Len(delivered) >= UART_RX_DMA_BUF_SIZE)
  /\ win_gt' = (win_gt \/ written' - read_w > UART_RX_DMA_BUF_SIZE)
  /\ idle_due' = TRUE
  /\ UNCHANGED <<build, sid, progvars, taskvars, convars, taskhist, irq_count>>

(***************************************************************************)
(* USART2_IRQHandler (README.md:194-203): the idle-line branch.            *)
(***************************************************************************)
IrqSetPending_counted(flag) == (flag + 1) % 256

\* README.md:199  rx_pending = 1;
IrqSetPending(flag) == 1

IdleIrq_transmits ==
  /\ inited
  /\ irq_count < MaxIrq
  /\ rx_pending' = IrqSetPending(rx_pending)
  /\ irq_count' = irq_count + 1
  /\ idle_due' = FALSE
  /\ Commit(HAL_UART_Transmit(St, S_crlf))
  /\ UNCHANGED <<hwvars, inited, dma_last_pos, taskvars, taskhist, win_gt, overrun>>

IdleIrq ==
  /\ inited
  /\ irq_count < MaxIrq
  /\ rx_pending' = IrqSetPending(rx_pending)
  /\ irq_count' = irq_count + 1
  /\ idle_due' = FALSE
  /\ UNCHANGED <<hwvars, inited, dma_last_pos, taskvars, convars, taskhist,
                 win_gt, overrun>>

(***************************************************************************)
(* task_console (console.c:64-99, part_000:29-64), one step per statement  *)
(* that reads or writes state shared with the hardware.                    *)
(***************************************************************************)
PendingTest_always(flag) == TRUE

\* console.c:66  if (!rx_pending) return;
PendingTest(flag) == flag # 0

ReadDmaPos_raw(w) == NDTR(w)

\* console.c:71-72
ReadDmaPos(w) == UART_RX_DMA_BUF_SIZE - NDTR(w)

\* console.c:78-81
SpanLinear(last, pos) == <<last, pos - last>>

SpanWrapFirst_short(last, pos) == <<last, UART_RX_DMA_BUF_SIZE - last - 1>>

\* console.c:85-88
SpanWrapFirst(last, pos) == <<last, UART_RX_DMA_BUF_SIZE - last>>

\* console.c:91-94
SpanWrapSecond(last, pos) == <<0, pos>>

NextLastPos_stale(last, pos) == last

\* console.c:97
NextLastPos(last, pos) == pos

TaskTest ==
  /\ inited /\ pc = "idle"
  /\ entry_pos' = dma_last_pos
  /\ spans' = <<>>
  /\ early' = ~PendingTest(rx_pending)
  /\ pc' = IF PendingTest(rx_pending) THEN "clear" ELSE "ret"
  /\ UNCHANGED <<hwvars, progvars, dma_pos, convars, read_w, coalesced, hwhist>>

TaskClear ==
  /\ pc = "clear"
  /\ rx_pending' = 0
  /\ coalesced' = irq_count
  /\ irq_count' = 0
  /\ pc' = "read"
  /\ UNCHANGED <<hwvars, inited, dma_last_pos, dma_pos, convars, spans,
                 entry_pos, early, read_w, win_gt, overrun, idle_due>>

TaskRead ==
  /\ pc = "read"
  /\ dma_pos' = ReadDmaPos(written)
  /\ read_w' = written
  /\ pc' = "cmp"
  /\ UNCHANGED <<hwvars, progvars, convars, spans, entry_pos, early, coalesced,
                 hwhist>>

RunSpan_fresh(sp) ==
  /\ Commit(console_process_bytes([St EXCEPT !.line_len = 0], sp[1], sp[2], build))
  /\ spans' = Append(spans, sp)

\* One console_process_bytes call on the span sp = <<start, len>>.
RunSpan(sp) ==
  /\ Commit(console_process_bytes(St, sp[1], sp[2], build))
  /\ spans' = Append(spans, sp)

TaskNoData ==
  /\ pc = "cmp" /\ dma_pos = dma_last_pos
  /\ pc' = "ret"
  /\ UNCHANGED <<hwvars, progvars, dma_pos, convars, taskhist, hwhist>>

TaskLinear ==
  /\ pc = "cmp" /\ dma_pos # dma_last_pos /\ dma_pos > dma_last_pos
  /\ RunSpan(SpanLinear(dma_last_pos, dma_pos))
  /\ pc' = "commit"
  /\ UNCHANGED <<hwvars, inited, rx_pending, dma_last_pos, dma_pos, entry_pos,
                 early, read_w, coalesced, hwhist>>

TaskWrapFirst ==
  /\ pc = "cmp" /\ dma_pos # dma_last_pos /\ ~(dma_pos > dma_last_pos)
  /\ RunSpan(SpanWrapFirst(dma_last_pos, dma_pos))
  /\ pc' = "span2"
  /\ UNCHANGED <<hwvars, inited, rx_pending, dma_last_pos, dma_pos, entry_pos,
                 early, read_w, coalesced, hwhist>>

TaskWrapSecond ==
  /\ pc = "span2"
  /\ IF dma_pos > 0
     THEN RunSpan(SpanWrapSecond(dma_last_pos, dma_pos))
     ELSE UNCHANGED <<convars, spans>>
  /\ pc' = "commit"
  /\ UNCHANGED <<hwvars, inited, rx_pending, dma_last_pos, dma_pos, entry_pos,
                 early, read_w, coalesced, hwhist>>

TaskCommit_clears ==
  /\ pc = "commit"
  /\ dma_last_pos' = NextLastPos(dma_last_pos, dma_pos)
  /\ rx_pending' = 0
  /\ pc' = "ret"
  /\ UNCHANGED <<hwvars, inited, dma_pos, convars, taskhist, hwhist>>

TaskCommit ==
  /\ pc = "commit"
  /\ dma_last_pos' = NextLastPos(dma_last_pos, dma_pos)
  /\ pc' = "ret"
  /\ UNCHANGED <<hwvars, inited, rx_pending, dma_pos, convars, taskhist, hwhist>>

TaskReturn ==
  /\ pc = "ret"
  /\ pc' = "idle"
  /\ UNCHANGED <<hwvars, progvars, dma_pos, convars, taskhist, hwhist>>

Next ==
  \/ ConsoleInit
  \/ DmaWrite
  \/ IdleIrq
  \/ TaskTest
  \/ TaskClear
  \/ TaskRead
  \/ TaskNoData
  \/ TaskLinear
  \/ TaskWrapFirst
  \/ TaskWrapSecond
  \/ TaskCommit
  \/ TaskReturn

\* All three stages of the console.
Spec == Init /\ [][Next]_vars

\* The stages built on console.c (echo, erase, prompt, dispatcher).
SpecConsole == InitConsole /\ [][Next]_vars

\* The steps of task_console.
task_console ==
  \/ TaskTest
  \/ TaskClear
  \/ TaskRead
  \/ TaskNoData
  \/ TaskLinear
  \/ TaskWrapFirst
  \/ TaskWrapSecond
  \/ TaskCommit
  \/ TaskReturn

\* A step of task_console seen through pc alone: every step of task_console
\* moves pc and no other step does, and after console_init one is always
\* possible.
TaskStep ==
  /\ inited
  /\ pc' \in {"idle", "clear", "read", "cmp", "span2", "commit", "ret"}
  /\ pc' # pc

\* The steps that move pc are the steps of task_console.
TaskStepIsTaskConsole == [][ (pc' # pc) <=> task_console ]_vars

\* The main loop calls task_console for ever, and the USART raises the idle
\* interrupt once the line has gone quiet after the bytes it received.
SpecFair ==
  Init /\ [][Next]_vars /\ WF_pc(TaskStep) /\ WF_vars(IdleIrq /\ idle_due)

(***************************************************************************)
(* Properties                                                              *)
(***************************************************************************)
\* The bytes passed to console_process_bytes so far are the first bytes of
\* the stream, each once, in arrival order.
InOrder == \A i \in 1..Len(delivered) : delivered[i] = i - 1

\* The invocation that is about to return read the DMA counter.
Polled == pc = "ret" /\ ~early

\* C1 (as stated): while the write position never ran more than the
\* capacity ahead of its last read by a poll, every byte the hardware wrote
\* is passed to console_process_bytes exactly once and in arrival order, and
\* a poll that returns has passed every byte written before its read.
C1_WindowAtMostCapacity ==
  ~win_gt => (InOrder /\ (Polled => Len(delivered) = read_w))

\* C1 (amended): while the bytes written and not yet passed to
\* console_process_bytes stayed fewer than the capacity, every byte the
\* hardware wrote is passed exactly once and in arrival order, across wrap,
\* and a poll that returns has passed every byte written before its read.
C1_BacklogBelowCapacity ==
  ~overrun => (InOrder /\ (Polled => Len(delivered) = read_w))

\* A poll returned after draining a wrapped range in two spans, nothing lost.
C1_Witness ==
  /\ Polled /\ ~overrun /\ Len(spans) = 2
  /\ written > UART_RX_DMA_BUF_SIZE
  /\ Len(delivered) = read_w

\* C2 (as stated): a poll that found rx_pending set handed over no span if
\* head = last_pos, the span [last_pos, head) if head > last_pos, the two
\* spans [last_pos, capacity) and [0, head) if head < last_pos, and leaves
\* last_pos = head.
C2_SpansAsStated ==
  Polled =>
    /\ dma_last_pos = dma_pos
    /\ (dma_pos = entry_pos => spans = <<>>)
    /\ (dma_pos > entry_pos => spans = << <<entry_pos, dma_pos - entry_pos>> >>)
    /\ (dma_pos < entry_pos =>
          spans = << <<entry_pos, UART_RX_DMA_BUF_SIZE - entry_pos>>, <<0, dma_pos>> >>)

\* C2 (amended): as stated, except that for head = 0 < last_pos only the one
\* span [last_pos, capacity) is handed over; two spans need 0 < head < last_pos.
C2_Spans ==
  Polled =>
    /\ dma_last_pos = dma_pos
    /\ (dma_pos = entry_pos => spans = <<>>)
    /\ (dma_pos > entry_pos => spans = << <<entry_pos, dma_pos - entry_pos>> >>)
    /\ (dma_pos < entry_pos /\ dma_pos > 0 =>
          spans = << <<entry_pos, UART_RX_DMA_BUF_SIZE - entry_pos>>, <<0, dma_pos>> >>)
    /\ (dma_pos < entry_pos /\ dma_pos = 0 =>
          spans = << <<entry_pos, UART_RX_DMA_BUF_SIZE - entry_pos>> >>)

\* A poll returned after a wrap with 0 < head < last_pos.
C2_Witness ==
  Polled /\ dma_pos < entry_pos /\ dma_pos > 0 /\ Len(spans) = 2

IsSuffix(t, s) ==
  Len(t) <= Len(s) /\ SubSeq(s, Len(s) - Len(t) + 1, Len(s)) = t

\* C3: the handling of every completed line transmits the prompt exactly
\* once, as its last bytes.
C3_PromptOncePerLine ==
  \A i \in 1..Len(handled) :
    handled[i].prompts = 1 /\ IsSuffix(S_prompt, handled[i].out)

\* C4: line_len never exceeds LINE_BUF_SIZE - 1, so the terminating NUL is
\* written inside line_buf.
C4_LineLenBound == line_len <= LINE_BUF_SIZE - 1

\* A line of LINE_BUF_SIZE - 1 bytes was completed.
C4_Witness ==
  \E i \in 1..Len(completed) : Len(completed[i]) = LINE_BUF_SIZE - 1

\* The byte of a step that passes exactly one byte to the line editor.
OneByte == Len(delivered') = Len(delivered) + 1 /\ delivered'[Len(delivered')] >= 0
TheByte == Flat[sid][delivered'[Len(delivered')] + 1]

\* C5: a printable byte arriving at line_len = LINE_BUF_SIZE - 1 leaves the
\* length and the accepted characters as they are, and a terminator arriving
\* then completes the line of exactly those LINE_BUF_SIZE - 1 characters.
C5_OverflowKeepsLine ==
  [][ (OneByte /\ line_len = LINE_BUF_SIZE - 1) =>
        /\ (TheByte \in 32..126 => line_len' = line_len /\ line_buf' = line_buf)
        /\ (TheByte \in {13, 10} =>
              completed' = Append(completed, [i \in 1..line_len |-> line_buf[i - 1]]))
    ]_vars

\* C6: the steps of a task_console invocation that found rx_pending false
\* only return: dma_last_pos, the line buffer, its length, the flag and the
\* transmitted output are unchanged.
C6_IdlePollFrame ==
  [][ (pc' # pc /\ ((pc = "idle" /\ rx_pending = 0) \/ (pc = "ret" /\ early))) =>
        /\ pc' \in {"ret", "idle"}
        /\ UNCHANGED <<rx_pending, dma_last_pos, line_buf, line_len, led_mode, out>>
    ]_vars

\* An invocation returned at the flag test although unread bytes are waiting.
C6_Witness ==
  /\ pc = "ret" /\ early
  /\ written % UART_RX_DMA_BUF_SIZE # dma_last_pos

\* C7: an idle interrupt that follows another one with no flag clear in
\* between changes nothing the console or the task can observe, so the next
\* poll runs from the same state as after a single interrupt.
C7_LevelSignal ==
  [][ (irq_count' > irq_count /\ irq_count >= 1) =>
        /\ rx_pending = 1
        /\ UNCHANGED <<hwvars, progvars, taskvars, convars, taskhist, win_gt, overrun>>
    ]_vars

\* A poll preceded by two coalesced interrupts drained every byte written.
C7_Witness ==
  /\ Polled /\ coalesced >= 2 /\ ~overrun
  /\ Len(spans) >= 1 /\ Len(delivered) = read_w

\* C8: an idle-interrupt step sets rx_pending to 1 and changes nothing else
\* of the console; the transmitted output grows only in console_init and in
\* a task_console step.
C8_IrqTouchesFlagOnly ==
  [][ /\ (irq_count' > irq_count =>
            /\ rx_pending' = 1
            /\ UNCHANGED <<dma_last_pos, line_buf, line_len, led_mode, out>>)
      /\ (out' # out => (~inited /\ inited') \/ (pc \in {"cmp", "span2"} /\ pc' # pc))
    ]_vars

\* An interrupt is pending while the console has already transmitted echo.
C8_Witness == rx_pending = 1 /\ irq_count >= 1 /\ Len(out) > Len(S_prompt)

\* First space-separated token of a line, empty for a line of spaces.
FirstToken(line) == strtok(line, 1).tok

\* C9: a completed line whose first token is neither "help" nor "led" gets
\* exactly "unknown command\r\n" and the prompt, and no led_set_mode call.
C9_UnknownCommand ==
  \A i \in 1..Len(completed) :
    (FirstToken(completed[i]) # <<>> /\ FirstToken(completed[i]) \notin {S_help, S_led}) =>
      /\ handled[i].out = S_unknown \o S_prompt
      /\ handled[i].modes = <<>>

LedLine(m) == S_led \o <<32>> \o m

\* C10: the completed line "led m", m in off, slow, fast, calls led_set_mode
\* once with the matching mode and transmits "ok\r\n" and then the prompt.
C10_LedSetsMode ==
  \A i \in 1..Len(completed) :
    /\ (completed[i] = LedLine(S_off) =>
          handled[i].modes = <<"LED_MODE_OFF">> /\ handled[i].out = S_ok \o S_prompt)
    /\ (completed[i] = LedLine(S_slow) =>
          handled[i].modes = <<"LED_MODE_SLOW">> /\ handled[i].out = S_ok \o S_prompt)
    /\ (completed[i] = LedLine(S_fast) =>
          handled[i].modes = <<"LED_MODE_FAST">> /\ handled[i].out = S_ok \o S_prompt)

\* Space-separated tokens of a line.
Tokens(line) == ArgLoop(line, strtok(line, 1), <<>>, {}).argv

\* What the handling of a line transmitted ahead of a closing prompt.
BeforePrompt(o) ==
  IF IsSuffix(S_prompt, o) THEN SubSeq(o, 1, Len(o) - Len(S_prompt)) ELSE o

LedModes == {S_off, S_slow, S_fast}

\* C11: the completed line "led" transmits the usage string, and a line
\* "led x" with x none of off, slow, fast transmits "invalid mode\r\n"; in
\* both cases led_set_mode is not called and "ok\r\n" is not transmitted.
C11_LedFailurePaths ==
  \A i \in 1..Len(completed) :
    LET a == Tokens(completed[i])
    IN  /\ (a = <<S_led>> =>
              BeforePrompt(handled[i].out) = S_usage /\ handled[i].modes = <<>>)
        /\ (Len(a) = 2 /\ a[1] = S_led /\ a[2] \notin LedModes =>
              BeforePrompt(handled[i].out) = S_invalid /\ handled[i].modes = <<>>)

\* C12: led_set_mode is called only for a line whose tokens are exactly
\* "led" and one of off, slow, fast; a led line with more arguments calls
\* nothing.
C12_LedExactlyOneArgument ==
  \A i \in 1..Len(completed) :
    handled[i].modes # <<>> =>
      \E m \in LedModes : Tokens(completed[i]) = <<S_led, m>>

\* "help - show this help\r\nled - led off|slow|fast\r\n"
HelpText ==
  S_help \o S_sep \o S_help_help \o S_crlf \o S_led \o S_sep \o S_led_help \o S_crlf

\* C13: the help command transmits one "<name> - <help>\r\n" line per table
\* entry, in table order, and nothing else ahead of the prompt.
C13_HelpListsTable ==
  \A i \in 1..Len(completed) :
    Tokens(completed[i]) = <<S_help>> =>
      BeforePrompt(handled[i].out) = HelpText

\* C14: after console_init, the bytes "help\r\n" make the console transmit
\* "help\r\n", "\r\n", the help text and the prompt, the prompt last.
C14_HelpScenario ==
  (Streams[sid] = Singles(In_help) /\ Len(delivered) = Len(In_help) /\ InOrder) =>
    out = S_prompt \o In_help \o S_crlf \o HelpText \o S_prompt

\* C15: a terminator arriving at line_len = 0 transmits only "\r\n": no
\* line is completed, no prompt sent, the line buffer and its length stay.
C15_EmptyEnter ==
  [][ (OneByte /\ line_len = 0 /\ TheByte \in {13, 10}) =>
        /\ out' = out \o S_crlf
        /\ UNCHANGED <<line_buf, line_len, completed, handled, prompts,
                       set_mode_calls, led_mode>>
    ]_vars

\* The LF of a CR LF pair was handled on the emptied line.
C15_Witness ==
  /\ build # "part_000" /\ InOrder /\ Len(delivered) >= 2
  /\ Flat[sid][Len(delivered)] = 10 /\ Flat[sid][Len(delivered) - 1] = 13
  /\ line_len = 0 /\ IsSuffix(S_crlf, out) /\ Len(completed) = 1

\* C16: an erase byte arriving at line_len = 0 changes nothing: the length
\* stays 0, the buffer stays, nothing is transmitted.
C16_EraseOnEmpty ==
  [][ (OneByte /\ line_len = 0 /\ TheByte \in {8, 127}) =>
        UNCHANGED <<line_buf, line_len, out, completed, prompts>>
    ]_vars

\* A backspace and a DEL were handled as the first bytes after the prompt.
C16_Witness ==
  /\ build # "part_000" /\ Streams[sid] = Singles(In_erase)
  /\ delivered = <<0, 1>> /\ line_len = 0 /\ out = S_prompt

\* C17: an erase byte arriving at line_len = n > 0 leaves length n - 1,
\* transmits exactly "\b \b" and keeps the first n - 1 characters; the
\* bytes "ab", backspace, "\r\n" complete the line "a".
C17_EraseLast ==
  [][ /\ (OneByte /\ line_len > 0 /\ TheByte \in {8, 127}) =>
            /\ line_len' = line_len - 1
            /\ out' = out \o S_erase
            /\ \A i \in 0..(line_len - 2) : line_buf'[i] = line_buf[i]
            /\ UNCHANGED <<completed, prompts>>
      /\ (Streams[sid] = Singles(In_ab) /\ Len(delivered') = Len(In_ab) /\ InOrder') =>
            completed' = << <<97>> >>
    ]_vars

\* "ab", backspace, "\r\n" was received and the line "a" completed.
C17_Witness ==
  /\ build # "part_000" /\ Streams[sid] = Singles(In_ab)
  /\ Len(delivered) = Len(In_ab) /\ completed = << <<97>> >>

\* C18: a printable byte arriving at line_len < LINE_BUF_SIZE - 1 is stored
\* at the end of the line and echoed as that one byte; arriving at
\* line_len = LINE_BUF_SIZE - 1 it is dropped and nothing is transmitted.
C18_PrintableAppendEcho ==
  [][ (OneByte /\ TheByte \in 32..126) =>
        IF line_len < LINE_BUF_SIZE - 1
        THEN /\ line_len' = line_len + 1
             /\ line_buf' = [line_buf EXCEPT ![line_len] = TheByte]
             /\ out' = out \o <<TheByte>>
        ELSE UNCHANGED <<line_buf, line_len, out>>
    ]_vars

Classified == {13, 10, 8, 127} \cup (32..126)

\* C19: a byte that is no terminator, no erase byte and not printable
\* changes neither the line buffer, its length nor the output, and no
\* completed line holds such a byte.
C19_OtherBytesIgnored ==
  [][ /\ (OneByte /\ TheByte \notin Classified) =>
            UNCHANGED <<line_buf, line_len, out, completed, prompts>>
      /\ \A i \in 1..Len(completed') : \A j \in 1..Len(completed'[i]) :
            completed'[i][j] \in 32..126
    ]_vars

\* C20: dma_last_pos and the write position read by a poll lie in
\* 0..capacity-1, and every span handed to the line editor lies inside
\* uart_rx_dma_buf.
C20_CursorsInRing ==
  /\ dma_last_pos \in 0..(UART_RX_DMA_BUF_SIZE - 1)
  /\ dma_pos \in 0..(UART_RX_DMA_BUF_SIZE - 1)
  /\ \A i \in 1..Len(spans) :
       /\ spans[i][1] \in 0..(UART_RX_DMA_BUF_SIZE - 1)
       /\ spans[i][2] >= 1
       /\ spans[i][1] + spans[i][2] <= UART_RX_DMA_BUF_SIZE

\* A poll drained a span that ends at the last slot of the buffer.
C20_Witness ==
  /\ Polled /\ Len(spans) >= 1
  /\ spans[1][1] + spans[1][2] = UART_RX_DMA_BUF_SIZE
  /\ dma_last_pos = dma_pos

\* C21: a step that handles one terminator byte leaves line_len = 0; if
\* the length was > 0 the dispatcher ran exactly once, on the NUL-terminated
\* line of that length, and otherwise not at all.  The bytes "led off",
\* CR, LF therefore complete one line, not two.
C21_EnterDispatchesOnce ==
  [][ /\ (OneByte /\ TheByte \in {13, 10}) =>
            /\ line_len' = 0
            /\ IF line_len > 0
               THEN /\ completed' = Append(completed, [i \in 1..line_len |-> line_buf[i - 1]])
                    /\ Len(handled') = Len(handled) + 1
                    /\ line_buf'[line_len] = 0
               ELSE UNCHANGED <<completed, handled, prompts, set_mode_calls>>
      /\ (Streams[sid] = Singles(In_led_off) /\ Len(delivered') = Len(In_led_off) /\ InOrder') =>
            Len(completed') = 1 /\ Len(handled') = 1
    ]_vars

\* "led off", CR, LF was received: one line completed, the LF found it empty.
C21_Witness ==
  /\ build # "part_000" /\ Streams[sid] = Singles(In_led_off)
  /\ Len(delivered) = Len(In_led_off) /\ InOrder
  /\ completed = <<LedLine(S_off)>> /\ Len(handled) = 1 /\ line_len = 0

\* task_console is between two invocations, the flag is down and the idle
\* interrupt for the last stored byte has been taken.
C22_Quiet == inited /\ pc = "idle" /\ rx_pending = 0 /\ ~idle_due

\* The read cursor stands at the hardware write position, and unless the
\* unread backlog ever reached the capacity every stored byte was processed.
C22_Drained ==
  /\ dma_last_pos = ReadDmaPos(written)
  /\ ~overrun => (Len(delivered) = written /\ InOrder)

Received ==
  [i \in 1..Len(delivered) |->
     IF delivered[i] < 0 THEN 0 ELSE Flat[sid][delivered[i] + 1]]

\* The console right after console_init.
Fresh ==
  LET st == [line_buf |-> [i \in 0..(LINE_BUF_SIZE - 1) |-> 0], line_len |-> 0,
             led_mode |-> "LED_MODE_OFF", out |-> <<>>, delivered |-> <<>>,
             prompts |-> 0, completed |-> <<>>, handled |-> <<>>,
             set_mode_calls |-> <<>>]
  IN  IF build = "part_000" THEN st ELSE console_prompt(st)

\* The line editor run over bytes[lo+1..hi] in one go.
RECURSIVE OnePass(_, _, _, _)
OnePass(st, bytes, lo, hi) ==
  IF lo >= hi THEN st
  ELSE IF hi = lo + 1 THEN ProcessByte(st, bytes[hi], build)
  ELSE LET mid == (lo + hi) \div 2
           st1 == OnePass(st, bytes, lo, mid)
       IN  IF st1.line_len >= 0 THEN OnePass(st1, bytes, mid, hi) ELSE st1

\* C23: the completed lines, their handling, the transmitted output and the
\* line buffer depend only on the sequence of bytes received, not on how
\* task_console invocations and spans cut it: they are what one
\* console_process_bytes call over the whole sequence gives.
C23_SpanIndependence ==
  inited =>
    LET one == OnePass(Fresh, Received, 0, Len(delivered))
    IN  /\ completed = one.completed
        /\ handled = one.handled
        /\ out = one.out
        /\ line_len = one.line_len
        /\ line_buf = one.line_buf
        /\ led_mode = one.led_mode

\* "help" arrived around the end of the ring: its bytes were handed over by
\* two invocations, the second one in two spans.
C23_Witness ==
  /\ build # "part_000" /\ Polled /\ Len(spans) = 2 /\ InOrder
  /\ entry_pos > UART_RX_DMA_BUF_SIZE - Len(S_help)
  /\ line_len = Len(S_help)
  /\ [i \in 1..line_len |-> line_buf[i - 1]] = S_help

\* The line as typed: printable bytes are appended while there is room, an
\* erase byte removes the last one, a terminator ends a non-empty line.
TypeByte(a, c) ==
  IF c \in {13, 10}
  THEN IF a.cur # <<>> THEN [cur |-> <<>>, lines |-> Append(a.lines, a.cur)] ELSE a
  ELSE IF c \in {8, 127}
  THEN IF a.cur # <<>> THEN [a EXCEPT !.cur = SubSeq(@, 1, Len(@) - 1)] ELSE a
  ELSE IF c \in 32..126 /\ Len(a.cur) < LINE_BUF_SIZE - 1
  THEN [a EXCEPT !.cur = Append(@, c)]
  ELSE a

RECURSIVE Typed(_, _, _, _)
Typed(a, bytes, lo, hi) ==
  IF lo >= hi THEN a
  ELSE IF hi = lo + 1 THEN TypeByte(a, bytes[hi])
  ELSE LET mid == (lo + hi) \div 2
           a1 == Typed(a, bytes, lo, mid)
       IN  IF Len(a1.cur) >= 0 THEN Typed(a1, bytes, mid, hi) ELSE a1

\* C24: every line handed to the dispatcher has 1 to LINE_BUF_SIZE - 1
\* bytes, all of them printable, and the lines handed over are, in order,
\* the printable bytes accepted since the previous terminator less those
\* removed by erase bytes.
C24_DispatchedLines ==
  inited =>
    /\ \A i \in 1..Len(completed) :
         /\ Len(completed[i]) \in 1..(LINE_BUF_SIZE - 1)
         /\ \A j \in 1..Len(completed[i]) : completed[i][j] \in 32..126
    /\ Len(handled) = Len(completed)
    /\ completed = Typed([cur |-> <<>>, lines |-> <<>>], Received, 0, Len(delivered)).lines

\* "a", ESC, TAB, 0xC8, NUL, "b", CR was received and completed the line "ab".
C24_Witness ==
  /\ build # "part_000" /\ Streams[sid] = Singles(In_ctrl)
  /\ completed = << <<97, 98>> >> /\ Len(handled) = 1

====
